---- MODULE Spec2Model ----
(***************************************************************************)
(* The /api/subgraph handler of api_server.py (get_subgraph_data): the     *)
(* request is parsed, the account's analysis document is loaded, the       *)
(* graph is validated, an adjacency index is built from the flat link      *)
(* list and a breadth-first traversal bounded by `degree` collects the     *)
(* nodes and links of the response.                                        *)
(*                                                                         *)
(* Every request has its own local variables (one slot of each function    *)
(* below); requests of different slots interleave at the granularity of    *)
(* one iteration of the traversal loop.                                    *)
(***************************************************************************)
EXTENDS Integers, Sequences, FiniteSets, TLC

VARIABLES
    cache_data,      \* acctno -> analysis document (the files of cache_data/)
    args,            \* request slot -> request.args (or NoArgs for an unused slot)
    pc,              \* request slot -> "idle" | "recv" | "bfs" | "done"
    center_node,     \* request slot -> the center identifier
    degree,          \* request slot -> the hop bound after int() and the clamp
    full_nodes,      \* request slot -> linkage['nodes']
    full_links,      \* request slot -> linkage['links']
    adjacency,       \* request slot -> id -> sequence of <<neighbor_id, link>>
    queue,           \* request slot -> deque of <<node_id, current_degree>>
    visited_nodes,   \* request slot -> set of ids
    subgraph_nodes,  \* request slot -> insertion-ordered dict: sequence of <<id, node>>
    subgraph_links,  \* request slot -> list of links
    response         \* request slot -> the (body, status) returned, or NoResponse

vars == <<cache_data, args, pc, center_node, degree, full_nodes, full_links,
          adjacency, queue, visited_nodes, subgraph_nodes, subgraph_links, response>>

(***************************************************************************)
(* Bounds of the model.                                                    *)
(***************************************************************************)
MaxNodes == 3       \* longest node list of a document
MaxLinks == 3       \* longest link list of a document
MaxAmount == 2      \* link attribute values 1..MaxAmount
MaxDegree == 3      \* largest degree parameter requested
PairMaxNodes == 2   \* the same, for the documents served to two requests
PairMaxLinks == 2
PairMaxDegree == 2

Reqs == {1, 2}
Ids == {"A", "B", "C"}
Acct == "1001"

(***************************************************************************)
(* Data: node and link records, documents, request parameters.             *)
(***************************************************************************)
SeqsUpTo(S, n) == UNION {[1..k -> S] : k \in 0..n}

\* A node record: its 'id' and one opaque display attribute. The attribute
\* is the record's position in the list, so two records sharing an id differ.
NodeList(ids) == [i \in 1..Len(ids) |-> [id |-> ids[i], label |-> i]]

LinkRecords(ids) == [source : ids, target : ids, amount : 1..MaxAmount]

\* What record.get(key) returns for a key the record lacks. A link record
\* without 'source' (or 'target') is modelled by this value in that field.
None == "None"

\* An entry of the node list or the link list that is no JSON object (null,
\* a number, a string): calling .get on it raises AttributeError.
NotADict == [json |-> "null"]
IsDict(x) == "json" \notin DOMAIN x

\* linkage_data: `keys` are the keys present; a list under an absent key is <<>>.
Linkage(nodes, links) == [keys |-> {"nodes", "links"}, nodes |-> nodes, links |-> links]
LinkageWithout(k, nodes, links) ==
    [keys |-> {"nodes", "links"} \ {k},
     nodes |-> IF k = "nodes" THEN <<>> ELSE nodes,
     links |-> IF k = "links" THEN <<>> ELSE links]

\* An analysis document: `keys` are its top-level keys.
Document(linkage) == [keys |-> {"linkage", "summary"}, linkage |-> linkage]

\* request.args of /api/subgraph. A parameter that is not given is "" for
\* acctno (the handler treats None and '' alike: `not acctno`); the degree
\* parameter is a string, modelled by what int() makes of it.
IntParam(n) == [kind |-> "int", val |-> n]
JunkParam == [kind |-> "junk", val |-> 0]      \* int() raises ValueError
AbsentParam == [kind |-> "absent", val |-> 0]  \* request.args.get('degree', '1')
NoArgs == [acctno |-> "", center_node |-> "", degree |-> AbsentParam]

NoResponse == [status |-> 0, error |-> "", nodes |-> <<>>, links |-> <<>>,
               center_node |-> "", degree |-> 0, total_nodes |-> 0, total_links |-> 0,
               original_graph_size |-> [nodes |-> 0, links |-> 0]]

\* jsonify({'error': msg}), status
ErrorResponse(status, msg) == [NoResponse EXCEPT !.status = status, !.error = msg]

\* except Exception as e: return jsonify({'error': str(e)}), 500
InternalErrorNoStatus(msg) == ErrorResponse(200, msg)
InternalError(msg) == ErrorResponse(500, msg)

(***************************************************************************)
(* Helpers of the handler.                                                 *)
(***************************************************************************)
\* degree = int(degree); if degree < 1: degree = 1; except ValueError: degree = 1
ParseDegreeNoClamp(p) ==
    CASE p.kind = "absent" -> 1
      [] p.kind = "junk" -> 1
      [] OTHER -> p.val
ParseDegree(p) ==
    CASE p.kind = "absent" -> 1
      [] p.kind = "junk" -> 1
      [] OTHER -> IF p.val < 1 THEN 1 ELSE p.val

\* `if not full_nodes or not full_links`
InvalidGraphNodesOnly(nodes, links) == nodes = <<>>
InvalidGraphBoth(nodes, links) == nodes = <<>> /\ links = <<>>
InvalidGraph(nodes, links) == nodes = <<>> \/ links = <<>>

\* linkage_data.get(key, [])
LinkageGet(linkage, key) ==
    IF key \in linkage.keys
    THEN (IF key = "nodes" THEN linkage.nodes ELSE linkage.links)
    ELSE <<>>

\* Index of the first node record whose 'id' is `id`, 0 when there is none
\* (the `for node in full_nodes ... break` loop and the next(..., None) scan),
\* -1 when the scan meets an entry that is no dict first: node.get raises.
RECURSIVE FindFrom(_, _, _)
FindFrom(nodes, id, i) ==
    IF i > Len(nodes) THEN 0
    ELSE IF ~IsDict(nodes[i]) THEN 0 - 1
    ELSE IF nodes[i].id = id THEN i
    ELSE FindFrom(nodes, id, i + 1)

FindNodeLast(nodes, id) ==
    LET k == FindFrom(nodes, id, 1)
    IN  IF k <= 0 THEN k
        ELSE CHOOSE j \in k..Len(nodes) :
                /\ IsDict(nodes[j]) /\ nodes[j].id = id
                /\ \A m \in (j + 1)..Len(nodes) : ~(IsDict(nodes[m]) /\ nodes[m].id = id)
FindNodeOrFirst(nodes, id) ==
    IF FindFrom(nodes, id, 1) = 0 /\ nodes # <<>> THEN 1 ELSE FindFrom(nodes, id, 1)
FindNode(nodes, id) == FindFrom(nodes, id, 1)

\* dict operations on an insertion-ordered dict kept as a sequence of <<key, value>>
DictKeys(d) == {d[i][1] : i \in 1..Len(d)}
DictSet(d, k, v) ==
    IF k \in DictKeys(d)
    THEN [i \in 1..Len(d) |-> IF d[i][1] = k THEN <<k, v>> ELSE d[i]]
    ELSE Append(d, <<k, v>>)
\* list(d.values())
DictValues(d) == [i \in 1..Len(d) |-> d[i][2]]

\* `link in subgraph_links` (equality of dicts)
InList(x, s) == \E i \in 1..Len(s) : s[i] = x

\* One iteration of `for link in full_links` building the adjacency index.
AddLinkDirected(adj, link) ==
    LET s == link.source
        t == link.target
        a1 == IF s \in DOMAIN adj THEN adj ELSE adj @@ (s :> <<>>)
        a2 == IF t \in DOMAIN a1 THEN a1 ELSE a1 @@ (t :> <<>>)
    IN  [a2 EXCEPT ![s] = Append(@, <<t, link>>)]
AddLinkFront(adj, link) ==
    LET s == link.source
        t == link.target
        a1 == IF s \in DOMAIN adj THEN adj ELSE adj @@ (s :> <<>>)
        a2 == IF t \in DOMAIN a1 THEN a1 ELSE a1 @@ (t :> <<>>)
        a3 == [a2 EXCEPT ![s] = <<<<t, link>>>> \o @]
    IN  [a3 EXCEPT ![t] = <<<<s, link>>>> \o @]
AddLink(adj, link) ==
    LET s == link.source
        t == link.target
        a1 == IF s \in DOMAIN adj THEN adj ELSE adj @@ (s :> <<>>)
        a2 == IF t \in DOMAIN a1 THEN a1 ELSE a1 @@ (t :> <<>>)
        a3 == [a2 EXCEPT ![s] = Append(@, <<t, link>>)]
    IN  [a3 EXCEPT ![t] = Append(@, <<s, link>>)]

RECURSIVE BuildFrom(_, _, _)
BuildFrom(links, i, adj) ==
    IF i > Len(links) THEN adj
    ELSE BuildFrom(links, i + 1, AddLink(adj, links[i]))

EmptyDict == [k \in {} |-> <<>>]

\* The links the loop indexes before link.get raises on an entry that is no
\* dict (all of them when every entry is a dict).
RECURSIVE DictPrefix(_, _)
DictPrefix(links, i) ==
    IF i > Len(links) \/ ~IsDict(links[i]) THEN SubSeq(links, 1, i - 1)
    ELSE DictPrefix(links, i + 1)

BuildRaises(links) == \E i \in 1..Len(links) : ~IsDict(links[i])

BuildAdjacency(links) == BuildFrom(DictPrefix(links, 1), 1, EmptyDict)

\* adjacency.get(node, [])
AdjacencyGet(adj, id) == IF id \in DOMAIN adj THEN adj[id] ELSE <<>>

\* The body of `for neighbor_id, link in adjacency.get(current_node, [])`:
\* st holds the traversal's variables.
DiscoverRevisit(st, nodes, neighbor_id, current_degree) ==
    LET k == FindNode(nodes, neighbor_id)
    IN  [st EXCEPT !.visited = @ \cup {neighbor_id},
                   !.queue = Append(@, <<neighbor_id, current_degree + 1>>),
                   !.nodes = IF k <= 0 THEN @ ELSE DictSet(@, neighbor_id, nodes[k]),
                   !.raised = k < 0]
DiscoverSameDegree(st, nodes, neighbor_id, current_degree) ==
    IF neighbor_id \in st.visited THEN st
    ELSE LET k == FindNode(nodes, neighbor_id)
         IN  [st EXCEPT !.visited = @ \cup {neighbor_id},
                        !.queue = Append(@, <<neighbor_id, current_degree>>),
                        !.nodes = IF k <= 0 THEN @ ELSE DictSet(@, neighbor_id, nodes[k]),
                        !.raised = k < 0]
DiscoverTagging(st, nodes, neighbor_id, current_degree) ==
    IF neighbor_id \in st.visited THEN st
    ELSE LET k == FindNode(nodes, neighbor_id)
         IN  [st EXCEPT !.visited = @ \cup {neighbor_id},
                        !.queue = Append(@, <<neighbor_id, current_degree + 1>>),
                        !.nodes = IF k <= 0 THEN @
                                  ELSE DictSet(@, neighbor_id, [nodes[k] EXCEPT !.label = 0]),
                        !.raised = k < 0]
Discover(st, nodes, neighbor_id, current_degree) ==
    IF neighbor_id \in st.visited THEN st
    ELSE LET k == FindNode(nodes, neighbor_id)
         IN  [st EXCEPT !.visited = @ \cup {neighbor_id},
                        !.queue = Append(@, <<neighbor_id, current_degree + 1>>),
                        !.nodes = IF k <= 0 THEN @ ELSE DictSet(@, neighbor_id, nodes[k]),
                        !.raised = k < 0]

AcceptLink(st, neighbor_id, link) ==
    IF neighbor_id \in DictKeys(st.nodes) /\ ~InList(link, st.links)
    THEN [st EXCEPT !.links = Append(@, link)]
    ELSE st

VisitNewOnly(st, nodes, entry, current_degree) ==
    LET found == Discover(st, nodes, entry[1], current_degree)
    IN  IF found.raised \/ entry[1] \in st.visited THEN found
        ELSE AcceptLink(found, entry[1], entry[2])
Visit(st, nodes, entry, current_degree) ==
    LET found == Discover(st, nodes, entry[1], current_degree)
    IN  IF found.raised THEN found ELSE AcceptLink(found, entry[1], entry[2])

\* The loop ends at its last entry, or where the node scan raises.
RECURSIVE Explore(_, _, _, _, _)
Explore(st, nodes, entries, i, current_degree) ==
    IF i > Len(entries) \/ st.raised THEN st
    ELSE Explore(Visit(st, nodes, entries[i], current_degree), nodes, entries, i + 1,
                 current_degree)

\* `if current_degree < degree`
ExpandsAlways(current_degree, deg) == TRUE
ExpandsAtBound(current_degree, deg) == current_degree <= deg
Expands(current_degree, deg) == current_degree < deg

\* subgraph_data
SuccessSharedLinks(r) ==
    LET subgraph_nodes_list == DictValues(subgraph_nodes[r])
    IN  [status |-> 200, error |-> "",
         nodes |-> subgraph_nodes_list,
         links |-> subgraph_links[1],
         center_node |-> center_node[r],
         degree |-> degree[r],
         total_nodes |-> Len(subgraph_nodes_list),
         total_links |-> Len(subgraph_links[1]),
         original_graph_size |-> [nodes |-> Len(full_nodes[r]),
                                  links |-> Len(full_links[r])]]
SuccessFullCounts(r) ==
    LET subgraph_nodes_list == DictValues(subgraph_nodes[r])
    IN  [status |-> 200, error |-> "",
         nodes |-> subgraph_nodes_list,
         links |-> subgraph_links[r],
         center_node |-> center_node[r],
         degree |-> degree[r],
         total_nodes |-> Len(full_nodes[r]),
         total_links |-> Len(full_links[r]),
         original_graph_size |-> [nodes |-> Len(full_nodes[r]),
                                  links |-> Len(full_links[r])]]
Success(r) ==
    LET subgraph_nodes_list == DictValues(subgraph_nodes[r])
    IN  [status |-> 200, error |-> "",
         nodes |-> subgraph_nodes_list,
         links |-> subgraph_links[r],
         center_node |-> center_node[r],
         degree |-> degree[r],
         total_nodes |-> Len(subgraph_nodes_list),
         total_links |-> Len(subgraph_links[r]),
         original_graph_size |-> [nodes |-> Len(full_nodes[r]),
                                  links |-> Len(full_links[r])]]

(***************************************************************************)
(* Actions.                                                                *)
(***************************************************************************)
FinishShared(r, resp) ==
    /\ pc' = [pc EXCEPT ![r] = "done"]
    /\ response' = [q \in Reqs |-> resp]
Finish(r, resp) ==
    /\ pc' = [pc EXCEPT ![r] = "done"]
    /\ response' = [response EXCEPT ![r] = resp]

\* Lines 418-490: parameters, load, validation, adjacency index, BFS start.
Start(r) ==
    /\ pc[r] = "recv"
    /\ LET a == args[r]
           deg == ParseDegree(a.degree)
       IN
       IF a.acctno = "" THEN
            /\ Finish(r, ErrorResponse(400, "acctno parameter is required"))
            /\ UNCHANGED <<center_node, degree, full_nodes, full_links, adjacency,
                           queue, visited_nodes, subgraph_nodes, subgraph_links>>
       ELSE IF a.center_node = "" THEN
            /\ Finish(r, ErrorResponse(400, "center_node parameter is required"))
            /\ UNCHANGED <<center_node, degree, full_nodes, full_links, adjacency,
                           queue, visited_nodes, subgraph_nodes, subgraph_links>>
       ELSE
       /\ center_node' = [center_node EXCEPT ![r] = a.center_node]
       /\ degree' = [degree EXCEPT ![r] = deg]
       /\ IF a.acctno \notin DOMAIN cache_data THEN
            \* load_data raises FileNotFoundError: the handler's except clause
            /\ Finish(r, InternalError("File not found"))
            /\ UNCHANGED <<full_nodes, full_links, adjacency, queue, visited_nodes,
                           subgraph_nodes, subgraph_links>>
          ELSE LET data == cache_data[a.acctno] IN
          IF data.keys = {} THEN
            /\ Finish(r, ErrorResponse(404, "No data found for account"))
            /\ UNCHANGED <<full_nodes, full_links, adjacency, queue, visited_nodes,
                           subgraph_nodes, subgraph_links>>
          ELSE IF "linkage" \notin data.keys THEN
            /\ Finish(r, ErrorResponse(404, "No linkage data available for this account"))
            /\ UNCHANGED <<full_nodes, full_links, adjacency, queue, visited_nodes,
                           subgraph_nodes, subgraph_links>>
          ELSE LET nodes == LinkageGet(data.linkage, "nodes")
                   links == LinkageGet(data.linkage, "links")
                   k == FindNode(nodes, a.center_node)
               IN
               /\ full_nodes' = [full_nodes EXCEPT ![r] = nodes]
               /\ full_links' = [full_links EXCEPT ![r] = links]
               /\ IF InvalidGraph(nodes, links) THEN
                    /\ Finish(r, ErrorResponse(400, "Invalid graph data structure"))
                    /\ UNCHANGED <<adjacency, queue, visited_nodes, subgraph_nodes,
                                   subgraph_links>>
                  ELSE IF k < 0 THEN
                    \* node.get raises in the scan for the center
                    /\ Finish(r, InternalError("object has no attribute 'get'"))
                    /\ UNCHANGED <<adjacency, queue, visited_nodes, subgraph_nodes,
                                   subgraph_links>>
                  ELSE IF k = 0 THEN
                    /\ Finish(r, ErrorResponse(404, "Center node not found in graph"))
                    /\ UNCHANGED <<adjacency, queue, visited_nodes, subgraph_nodes,
                                   subgraph_links>>
                  ELSE IF BuildRaises(links) THEN
                    \* link.get raises while the adjacency index is built
                    /\ adjacency' = [adjacency EXCEPT ![r] = BuildAdjacency(links)]
                    /\ Finish(r, InternalError("object has no attribute 'get'"))
                    /\ UNCHANGED <<queue, visited_nodes, subgraph_nodes, subgraph_links>>
                  ELSE
                    /\ adjacency' = [adjacency EXCEPT ![r] = BuildAdjacency(links)]
                    /\ queue' = [queue EXCEPT ![r] = <<<<a.center_node, 0>>>>]
                    /\ visited_nodes' = [visited_nodes EXCEPT ![r] = {a.center_node}]
                    /\ subgraph_nodes' = [subgraph_nodes EXCEPT ![r] =
                                            DictSet(<<>>, a.center_node, nodes[k])]
                    /\ subgraph_links' = [subgraph_links EXCEPT ![r] = <<>>]
                    /\ pc' = [pc EXCEPT ![r] = "bfs"]
                    /\ UNCHANGED response
    /\ UNCHANGED <<cache_data, args>>

\* Lines 492-509: one iteration of `while queue` (and lines 532-534 when it raises).
Step(r) ==
    /\ pc[r] = "bfs"
    /\ queue[r] # <<>>
    /\ LET current_node == Head(queue[r])[1]
           current_degree == Head(queue[r])[2]
           st0 == [visited |-> visited_nodes[r], queue |-> Tail(queue[r]),
                   nodes |-> subgraph_nodes[r], links |-> subgraph_links[r],
                   raised |-> FALSE]
           st == IF Expands(current_degree, degree[r])
                 THEN Explore(st0, full_nodes[r], AdjacencyGet(adjacency[r], current_node),
                              1, current_degree)
                 ELSE st0
       IN  /\ visited_nodes' = [visited_nodes EXCEPT ![r] = st.visited]
           /\ queue' = [queue EXCEPT ![r] = st.queue]
           /\ subgraph_nodes' = [subgraph_nodes EXCEPT ![r] = st.nodes]
           /\ subgraph_links' = [subgraph_links EXCEPT ![r] = st.links]
           /\ IF st.raised
              THEN \* n.get raises in the scan for the neighbour's record
                   Finish(r, InternalError("object has no attribute 'get'"))
              ELSE UNCHANGED <<pc, response>>
    /\ UNCHANGED <<cache_data, args, center_node, degree, full_nodes, full_links,
                   adjacency>>

\* Lines 511-530: the loop has ended; the response is assembled and returned.
Respond(r) ==
    /\ pc[r] = "bfs"
    /\ queue[r] = <<>>
    /\ Finish(r, Success(r))
    /\ UNCHANGED <<cache_data, args, center_node, degree, full_nodes, full_links,
                   adjacency, queue, visited_nodes, subgraph_nodes, subgraph_links>>

Next == \E r \in Reqs : Start(r) \/ Step(r) \/ Respond(r)

(***************************************************************************)
(* Initial states: the documents on disk and the requests received.        *)
(***************************************************************************)
Locals0 ==
    /\ center_node = [r \in Reqs |-> ""]
    /\ degree = [r \in Reqs |-> 0]
    /\ full_nodes = [r \in Reqs |-> <<>>]
    /\ full_links = [r \in Reqs |-> <<>>]
    /\ adjacency = [r \in Reqs |-> EmptyDict]
    /\ queue = [r \in Reqs |-> <<>>]
    /\ visited_nodes = [r \in Reqs |-> {}]
    /\ subgraph_nodes = [r \in Reqs |-> <<>>]
    /\ subgraph_links = [r \in Reqs |-> <<>>]
    /\ response = [r \in Reqs |-> NoResponse]

OneRequest(a) ==
    /\ args = [r \in Reqs |-> IF r = 1 THEN a ELSE NoArgs]
    /\ pc = [r \in Reqs |-> IF r = 1 THEN "recv" ELSE "idle"]

\* The degree parameter as sent: absent, not a number, or an integer -1..maxDegree.
DegreeParams(maxDegree) ==
    {AbsentParam, JunkParam} \cup {IntParam(n) : n \in (0 - 1)..maxDegree}

\* One request for center "A" with a degree >= 1, over every document within
\* the bounds (node and link lists over Ids, either key possibly absent).
Init ==
    /\ \/ \E ids \in SeqsUpTo(Ids, MaxNodes), links \in SeqsUpTo(LinkRecords(Ids), MaxLinks) :
             cache_data = (Acct :> Document(Linkage(NodeList(ids), links)))
       \/ \E links \in SeqsUpTo(LinkRecords(Ids), MaxLinks) :
             cache_data = (Acct :> Document(LinkageWithout("nodes", <<>>, links)))
       \/ \E ids \in SeqsUpTo(Ids, MaxNodes) :
             cache_data = (Acct :> Document(LinkageWithout("links", NodeList(ids), <<>>)))
    /\ \E d \in 1..MaxDegree :
          OneRequest([acctno |-> Acct, center_node |-> "A", degree |-> IntParam(d)])
    /\ Locals0

Spec == Init /\ [][Next]_vars

\* Two concurrent requests over one document of the smaller family, each with
\* its own center and degree parameter.
PairIds == {"A", "B"}
InitPair ==
    /\ \E ids \in SeqsUpTo(PairIds, PairMaxNodes),
          links \in SeqsUpTo(LinkRecords(PairIds), PairMaxLinks) :
          cache_data = (Acct :> Document(Linkage(NodeList(ids), links)))
    /\ args \in [Reqs -> [acctno : {Acct}, center_node : PairIds,
                          degree : DegreeParams(PairMaxDegree)]]
    /\ pc = [r \in Reqs |-> "recv"]
    /\ Locals0

SpecPair == InitPair /\ [][Next]_vars

\* The path graph A-B, B-C, C-D of the spec's concrete scenario, one request.
PathNodes == NodeList(<<"A", "B", "C", "D">>)
PathLinks == <<[source |-> "A", target |-> "B", amount |-> 1],
               [source |-> "B", target |-> "C", amount |-> 1],
               [source |-> "C", target |-> "D", amount |-> 1]>>
InitPath ==
    /\ cache_data = (Acct :> Document(Linkage(PathNodes, PathLinks)))
    /\ \E c \in {"A", "B", "C", "D", "Z"}, d \in DegreeParams(MaxDegree + 1) :
          OneRequest([acctno |-> Acct, center_node |-> c, degree |-> d])
    /\ Locals0

SpecPath == InitPath /\ [][Next]_vars

\* One request over documents that may be unusable: no file for the account,
\* an empty document, no 'linkage', absent keys, node or link entries that
\* are no dicts, link records without 'source' or 'target'; any parameter may
\* be missing from the request.
NodeEntries(ids) ==
    [i \in 1..Len(ids) |-> IF ids[i] = None THEN NotADict
                           ELSE [id |-> ids[i], label |-> i]]
LinkEntries(ids) ==
    {NotADict} \cup [source : ids \cup {None}, target : ids \cup {None}, amount : {1}]
EmptyDocument == [keys |-> {}, linkage |-> Linkage(<<>>, <<>>)]
DocumentWithoutLinkage == [keys |-> {"summary"}, linkage |-> Linkage(<<>>, <<>>)]
InitErr ==
    /\ \/ \E ids \in SeqsUpTo(PairIds \cup {None}, PairMaxNodes),
             links \in SeqsUpTo(LinkEntries(PairIds), PairMaxLinks) :
             cache_data = (Acct :> Document(Linkage(NodeEntries(ids), links)))
       \/ \E links \in SeqsUpTo(LinkEntries(PairIds), PairMaxLinks) :
             cache_data = (Acct :> Document(LinkageWithout("nodes", <<>>, links)))
       \/ \E ids \in SeqsUpTo(PairIds \cup {None}, PairMaxNodes) :
             cache_data = (Acct :> Document(LinkageWithout("links", NodeEntries(ids), <<>>)))
       \/ cache_data = (Acct :> EmptyDocument)
       \/ cache_data = (Acct :> DocumentWithoutLinkage)
    /\ \E a \in {"", Acct, "2002"}, c \in {"", "A", "B"}, d \in DegreeParams(PairMaxDegree) :
          OneRequest([acctno |-> a, center_node |-> c, degree |-> d])
    /\ Locals0

SpecErr == InitErr /\ [][Next]_vars

(***************************************************************************)
(* Properties.  The graph of a request is read from the document and the   *)
(* request parameters, not from the handler's variables; hop distance is   *)
(* defined on the link list, independently of the traversal.               *)
(***************************************************************************)
InNodes == LinkageGet(cache_data[Acct].linkage, "nodes")
InLinks == LinkageGet(cache_data[Acct].linkage, "links")

IdsOf(nodes) == {nodes[i].id : i \in 1..Len(nodes)}
Elems(s) == {s[i] : i \in 1..Len(s)}
UniqueIds(nodes) == \A i, j \in 1..Len(nodes) : nodes[i].id = nodes[j].id => i = j

\* a and b are joined by a link, in either direction
Adjacent(links, a, b) ==
    \E i \in 1..Len(links) :
        \/ links[i].source = a /\ links[i].target = b
        \/ links[i].source = b /\ links[i].target = a

EndpointIds(links) ==
    {links[i].source : i \in 1..Len(links)} \cup {links[i].target : i \in 1..Len(links)}

\* the identifiers at undirected hop distance <= k from c
RECURSIVE Within(_, _, _)
Within(links, c, k) ==
    IF k = 0 THEN {c}
    ELSE LET B == Within(links, c, k - 1)
         IN  B \cup {x \in EndpointIds(links) : \E y \in B : Adjacent(links, y, x)}

Succeeded(r) == pc[r] = "done" /\ response[r].status = 200
RequestedDegree(r) == args[r].degree.val
AsksDegreeAtLeast1(r) == args[r].degree.kind = "int" /\ args[r].degree.val >= 1

\* C1: for a degree >= 1, the identifiers of the returned nodes are exactly the
\* identifiers of the node list at undirected hop distance <= degree from the
\* center (nothing farther or unreachable, nothing nearer missing); when the
\* node list has no two records with one id, the returned records are exactly
\* the records of those nodes.
C1_NodesWithinDegree ==
    \A r \in Reqs :
        Succeeded(r) /\ AsksDegreeAtLeast1(r) =>
            LET ball == Within(InLinks, args[r].center_node, RequestedDegree(r))
            IN  /\ IdsOf(response[r].nodes) = IdsOf(InNodes) \cap ball
                /\ UniqueIds(InNodes) =>
                      Elems(response[r].nodes) = {n \in Elems(InNodes) : n.id \in ball}

\* A run that returned several nodes and left out a node lying one hop
\* beyond the degree.
C1_Witness ==
    \E r \in Reqs :
        /\ Succeeded(r) /\ AsksDegreeAtLeast1(r)
        /\ Len(response[r].nodes) >= 2
        /\ \E id \in IdsOf(InNodes) :
              /\ id \in Within(InLinks, args[r].center_node, RequestedDegree(r) + 1)
              /\ id \notin Within(InLinks, args[r].center_node, RequestedDegree(r))
              /\ id \notin IdsOf(response[r].nodes)

\* C2: every returned link has its source and its target among the ids of the
\* returned nodes (closure), also for links that mention ids without a node record.
C2_LinkClosure ==
    \A r \in Reqs :
        Succeeded(r) =>
            \A i \in 1..Len(response[r].links) :
                /\ response[r].links[i].source \in IdsOf(response[r].nodes)
                /\ response[r].links[i].target \in IdsOf(response[r].nodes)

\* C3: the returned links are the induced ones: a link of the full graph is
\* returned if and only if both its endpoints are in the final visited set,
\* which is the set of returned nodes. Stated for the graphs of the data model,
\* where every link endpoint has a node record (the failures owed to endpoints
\* without a record are C2's).
C3_InducedLinks ==
    \A r \in Reqs :
        Succeeded(r) /\ EndpointIds(InLinks) \subseteq IdsOf(InNodes) =>
            /\ visited_nodes[r] = IdsOf(response[r].nodes)
            /\ \A i \in 1..Len(InLinks) :
                  InList(InLinks[i], response[r].links)
                      <=> /\ InLinks[i].source \in visited_nodes[r]
                          /\ InLinks[i].target \in visited_nodes[r]

\* C4: over a graph with nodes and links, a center that is no node's id ends
\* in the 404 "not found" error (no nodes, no links in the body); and every
\* successful response contains the center node.
C4_CenterNotFound ==
    \A r \in Reqs :
        pc[r] = "done" =>
            /\ (InNodes # <<>> /\ InLinks # <<>>
                /\ args[r].center_node \notin IdsOf(InNodes))
                  => response[r] = ErrorResponse(404, "Center node not found in graph")
            /\ response[r].status = 200
                  => \E i \in 1..Len(response[r].nodes) :
                        response[r].nodes[i].id = args[r].center_node

\* A request for an absent center over a graph with nodes and links has ended.
C4_Witness ==
    \E r \in Reqs :
        /\ pc[r] = "done"
        /\ InNodes # <<>> /\ InLinks # <<>>
        /\ args[r].center_node \notin IdsOf(InNodes)
        /\ response[r].status = 404

\* C5: when the node list or the link list of the document is empty (or its
\* key absent), the request ends in the 400 "invalid graph" error and never
\* builds the adjacency index nor starts the traversal, also when the only
\* node is the requested center.
C5_EmptyGraphInvalid ==
    (InNodes = <<>> \/ InLinks = <<>>) =>
        \A r \in Reqs :
            /\ pc[r] # "bfs"
            /\ adjacency[r] = EmptyDict /\ queue[r] = <<>>
            /\ visited_nodes[r] = {} /\ subgraph_nodes[r] = <<>>
            /\ pc[r] = "done"
                  => response[r] = ErrorResponse(400, "Invalid graph data structure")

\* The document holds the requested center as its only node and no links.
C5_Witness ==
    \E r \in Reqs :
        /\ pc[r] = "done"
        /\ Len(InNodes) = 1 /\ InNodes[1].id = args[r].center_node
        /\ InLinks = <<>>
        /\ response[r].status = 400

\* C6: a request with degree 0 or negative gets the response of the request
\* with degree 1 over the same graph and center, and the echoed degree is 1.
C6_DegreeClamp ==
    \A r1, r2 \in Reqs :
        /\ pc[r1] = "done" /\ pc[r2] = "done"
        /\ args[r1].center_node = args[r2].center_node
        /\ args[r1].degree.kind = "int" /\ args[r1].degree.val < 1
        /\ args[r2].degree = IntParam(1)
        => /\ response[r1] = response[r2]
           /\ response[r1].status = 200 => response[r1].degree = 1

\* Two finished requests, one with degree < 1 and one with degree 1, each
\* returning several nodes.
C6_Witness ==
    \E r1, r2 \in Reqs :
        /\ pc[r1] = "done" /\ pc[r2] = "done"
        /\ args[r1].center_node = args[r2].center_node
        /\ args[r1].degree.kind = "int" /\ args[r1].degree.val < 1
        /\ args[r2].degree = IntParam(1)
        /\ response[r1].status = 200 /\ Len(response[r1].nodes) >= 2

\* C7: two links with the same source and target and different attributes are
\* both returned when both endpoints are returned, and the returned link list
\* never holds two equal records.
C7_ParallelEdges ==
    \A r \in Reqs :
        Succeeded(r) =>
            /\ \A i, j \in 1..Len(InLinks) :
                  /\ InLinks[i].source = InLinks[j].source
                  /\ InLinks[i].target = InLinks[j].target
                  /\ InLinks[i] # InLinks[j]
                  /\ InLinks[i].source \in IdsOf(response[r].nodes)
                  /\ InLinks[i].target \in IdsOf(response[r].nodes)
                  => /\ InList(InLinks[i], response[r].links)
                     /\ InList(InLinks[j], response[r].links)
            /\ \A i, j \in 1..Len(response[r].links) :
                  response[r].links[i] = response[r].links[j] => i = j

C9_PathScenario ==
    \A r \in Reqs :
        /\ pc[r] = "done" /\ InNodes = PathNodes /\ InLinks = PathLinks
        /\ args[r].center_node = "A" /\ args[r].degree.kind = "int"
        /\ args[r].degree.val \in 1..3
        => LET d == args[r].degree.val
           IN  /\ response[r].status = 200
               /\ Elems(response[r].nodes) = {PathNodes[i] : i \in 1..(d + 1)}
               /\ Len(response[r].nodes) = d + 1
               /\ Elems(response[r].links) = {PathLinks[i] : i \in 1..d}
               /\ Len(response[r].links) = d

\* The degree-3 request over the path graph returned all four nodes.
C9_Witness ==
    \E r \in Reqs :
        /\ pc[r] = "done" /\ args[r].center_node = "A"
        /\ args[r].degree = IntParam(3)
        /\ Len(response[r].nodes) = 4 /\ Len(response[r].links) = 3

\* C10: in a successful response the counts are the lengths of the returned
\* lists, original_graph_size holds the lengths of the full lists, center_node
\* is the requested center and degree is the clamped degree the traversal used.
C10_SummaryFields ==
    \A r \in Reqs :
        Succeeded(r) =>
            /\ response[r].total_nodes = Len(response[r].nodes)
            /\ response[r].total_links = Len(response[r].links)
            /\ response[r].original_graph_size.nodes = Len(InNodes)
            /\ response[r].original_graph_size.links = Len(InLinks)
            /\ response[r].center_node = args[r].center_node
            /\ response[r].degree = degree[r]
            /\ response[r].degree = (IF AsksDegreeAtLeast1(r) THEN RequestedDegree(r) ELSE 1)

\* A successful response to a request with degree < 1 that returned fewer
\* nodes and links than the full graph holds.
C10_Witness ==
    \E r \in Reqs :
        /\ Succeeded(r)
        /\ args[r].degree.kind = "int" /\ args[r].degree.val < 1
        /\ response[r].total_nodes < Len(InNodes)
        /\ response[r].total_links >= 1
        /\ response[r].total_links < Len(InLinks)

(***************************************************************************)
(* Outcomes, read from the request and the document.                       *)
(***************************************************************************)
ParamsGiven(r) == args[r].acctno # "" /\ args[r].center_node # ""
FileExists(r) == args[r].acctno \in DOMAIN cache_data
HasLinkage(r) ==
    ParamsGiven(r) /\ FileExists(r) /\ "linkage" \in cache_data[args[r].acctno].keys
GraphNodes(r) == LinkageGet(cache_data[args[r].acctno].linkage, "nodes")
GraphLinks(r) == LinkageGet(cache_data[args[r].acctno].linkage, "links")
HasGraph(r) == HasLinkage(r) /\ GraphNodes(r) # <<>> /\ GraphLinks(r) # <<>>
ClampedDegree(r) == IF AsksDegreeAtLeast1(r) THEN RequestedDegree(r) ELSE 1

\* a scan of the node list for `id` meets an entry that is no dict before a match
ScanRaises(nodes, id) ==
    \E j \in 1..Len(nodes) :
        ~IsDict(nodes[j]) /\ \A i \in 1..(j - 1) : nodes[i].id # id
ScanFinds(nodes, id) ==
    \E k \in 1..Len(nodes) :
        /\ \A i \in 1..(k - 1) : IsDict(nodes[i])
        /\ IsDict(nodes[k]) /\ nodes[k].id = id

EmptyGraph(r) == HasLinkage(r) /\ (GraphNodes(r) = <<>> \/ GraphLinks(r) = <<>>)
CenterMissing(r) ==
    /\ HasGraph(r)
    /\ \A i \in 1..Len(GraphNodes(r)) :
          IsDict(GraphNodes(r)[i]) /\ GraphNodes(r)[i].id # args[r].center_node

\* the failures raised: by load_data, by the scan for the center, by the loop
\* building the adjacency index, by the scan for a discovered neighbour
LoadRaises(r) == ParamsGiven(r) /\ ~FileExists(r)
CenterScanRaises(r) == HasGraph(r) /\ ScanRaises(GraphNodes(r), args[r].center_node)
Traverses(r) == HasGraph(r) /\ ScanFinds(GraphNodes(r), args[r].center_node)
IndexRaises(r) == Traverses(r) /\ \E i \in 1..Len(GraphLinks(r)) : ~IsDict(GraphLinks(r)[i])
TraversalRaises(r) ==
    /\ Traverses(r) /\ ~IndexRaises(r)
    /\ \E x \in Within(GraphLinks(r), args[r].center_node, ClampedDegree(r)) :
          x # args[r].center_node /\ ScanRaises(GraphNodes(r), x)
FailureRaised(r) ==
    LoadRaises(r) \/ CenterScanRaises(r) \/ IndexRaises(r) \/ TraversalRaises(r)

\* C11: a missing center ends in 404, an empty node or link list in 400, every
\* failure raised while loading or traversing in 500 with an error message;
\* no failure ends in a 200 response.
C11_StatusMapping ==
    \A r \in Reqs :
        pc[r] = "done" =>
            /\ CenterMissing(r) => response[r].status = 404
            /\ EmptyGraph(r) => response[r].status = 400
            /\ FailureRaised(r) => response[r].status = 500 /\ response[r].error # ""
            /\ response[r].status = 200 =>
                  Traverses(r) /\ ~CenterMissing(r) /\ ~EmptyGraph(r) /\ ~FailureRaised(r)

\* A request that failed in the traversal: a neighbour's record was looked up
\* in a node list holding an entry that is no dict.
C11_Witness ==
    \E r \in Reqs :
        /\ pc[r] = "done" /\ response[r].status = 500
        /\ TraversalRaises(r) /\ Cardinality(visited_nodes[r]) >= 2

\* a link record without 'source' or without 'target'
Malformed(link) == IsDict(link) /\ (link.source = None \/ link.target = None)

\* C12: a link record lacking 'source' or 'target' makes the extraction end in
\* the 500 error; it is never taken into the adjacency index nor returned in
\* the links of a successful response.
C12_MalformedLinkRejected ==
    \A r \in Reqs :
        /\ None \notin DOMAIN adjacency[r]
        /\ (pc[r] = "done" /\ Traverses(r)
             /\ \E i \in 1..Len(GraphLinks(r)) : Malformed(GraphLinks(r)[i]))
            => /\ response[r].status = 500
               /\ \A i \in 1..Len(response[r].links) : ~Malformed(response[r].links[i])

\* C13: the extraction has no effect on its inputs: no step changes the
\* document, the loaded node and link lists stay the document's lists, and
\* every node and link collected or returned is an unmodified record of them.
C13_InputsUntouched ==
    [][/\ cache_data' = cache_data
       /\ \A r \in Reqs :
             /\ pc[r] = "bfs" =>
                   full_nodes'[r] = full_nodes[r] /\ full_links'[r] = full_links[r]
             /\ pc'[r] = "bfs" =>
                   full_nodes'[r] = InNodes' /\ full_links'[r] = InLinks'
             /\ Elems(DictValues(subgraph_nodes'[r])) \subseteq Elems(InNodes')
             /\ Elems(subgraph_links'[r]) \subseteq Elems(InLinks')
             /\ Elems(response'[r].nodes) \subseteq Elems(InNodes')
             /\ Elems(response'[r].links) \subseteq Elems(InLinks')]_vars

\* One request has succeeded and returned links of a two-node document, the
\* other has failed for its absent center.
C13_Witness ==
    \E r, q \in Reqs :
        /\ Succeeded(r) /\ Len(InNodes) >= 2 /\ Len(response[r].links) >= 2
        /\ pc[q] = "done" /\ response[q].status = 404
        /\ full_nodes[r] = InNodes /\ full_links[r] = InLinks

\* The handler run alone, from the first dequeue to the empty queue, as one
\* sequential computation over the request's own graph.
RECURSIVE Drain(_, _, _, _)
Drain(st, nodes, adj, deg) ==
    IF st.queue = <<>> \/ st.raised THEN st
    ELSE LET current == Head(st.queue)
             st0 == [st EXCEPT !.queue = Tail(@)]
         IN  Drain(IF Expands(current[2], deg)
                   THEN Explore(st0, nodes, AdjacencyGet(adj, current[1]), 1, current[2])
                   ELSE st0,
                   nodes, adj, deg)

RunAlone(r) ==
    IF EmptyGraph(r) THEN ErrorResponse(400, "Invalid graph data structure")
    ELSE IF CenterMissing(r) THEN ErrorResponse(404, "Center node not found in graph")
    ELSE LET nodes == GraphNodes(r)
             center == args[r].center_node
             final == Drain([visited |-> {center}, queue |-> <<<<center, 0>>>>,
                             nodes |-> <<<<center, nodes[FindNode(nodes, center)]>>>>,
                             links |-> <<>>, raised |-> FALSE],
                            nodes, BuildAdjacency(GraphLinks(r)), ClampedDegree(r))
         IN  [status |-> 200, error |-> "",
              nodes |-> DictValues(final.nodes), links |-> final.links,
              center_node |-> center, degree |-> ClampedDegree(r),
              total_nodes |-> Len(final.nodes), total_links |-> Len(final.links),
              original_graph_size |-> [nodes |-> Len(nodes), links |-> Len(GraphLinks(r))]]

\* C14: requests interleaved at any step share no mutable state: each ends
\* with the response its own run alone gives, whatever the other request is
\* and however the two are interleaved.
C14_RequestsIsolated ==
    \A r \in Reqs : pc[r] = "done" => response[r] = RunAlone(r)

\* Two finished requests with different parameters and different successful
\* responses over the same document.
C14_Witness ==
    /\ Succeeded(1) /\ Succeeded(2)
    /\ args[1].center_node # args[2].center_node
    /\ args[1].degree # args[2].degree
    /\ Len(response[1].nodes) >= 2 /\ Len(response[2].links) >= 1
    /\ response[1].links # response[2].links

\* the undirected hop distance of x from c (x is reachable from c)
Distance(links, c, x) ==
    CHOOSE k \in 0..Cardinality(EndpointIds(links)) :
        /\ x \in Within(links, c, k)
        /\ k > 0 => x \notin Within(links, c, k - 1)

QueueIds(q) == {q[i][1] : i \in 1..Len(q)}

\* C15: in the traversal every identifier enters the visited set and the queue
\* at most once (an entry is appended only for an identifier not visited
\* before, and the visited set never loses one), its label is its shortest
\* undirected hop distance from the center, and the queue holds its entries
\* in non-decreasing label order with no label above degree.
C15_BfsInvariant ==
    [][\A r \in Reqs :
          LET q == queue'[r]
              added == SubSeq(q, Len(queue[r]), Len(q))
          IN  /\ visited_nodes[r] \subseteq visited_nodes'[r]
              /\ pc[r] = "bfs" /\ queue'[r] # queue[r] =>
                    /\ SubSeq(q, 1, Len(queue[r]) - 1) = Tail(queue[r])
                    /\ QueueIds(added) \cap visited_nodes[r] = {}
                    /\ visited_nodes'[r] = visited_nodes[r] \cup QueueIds(added)
              /\ pc'[r] = "bfs" =>
                    /\ QueueIds(q) \subseteq visited_nodes'[r]
                    /\ \A i, j \in 1..Len(q) :
                          /\ i < j => q[i][1] # q[j][1] /\ q[i][2] <= q[j][2]
                          /\ q[i][2] <= ClampedDegree(r)
                          /\ q[i][2] = Distance(InLinks, args[r].center_node, q[i][1])
                    /\ \A x \in visited_nodes'[r] :
                          Distance(InLinks, args[r].center_node, x) <= ClampedDegree(r)]_vars

\* The queue holds an identifier two hops from the center that is joined to
\* one visited neighbour by two different links.
C15_Witness ==
    \E r \in Reqs :
        /\ pc[r] = "bfs"
        /\ \E e \in Elems(queue[r]) :
              /\ e[2] = 2
              /\ \E i, j \in 1..Len(InLinks) :
                    /\ i # j
                    /\ {InLinks[i].source, InLinks[i].target}
                           = {InLinks[j].source, InLinks[j].target}
                    /\ e[1] \in {InLinks[i].source, InLinks[i].target}
                    /\ Cardinality({InLinks[i].source, InLinks[i].target}) = 2

\* the position in `links` of the first link that joins a and b
FirstLink(links, a, b) ==
    CHOOSE k \in 1..Len(links) :
        /\ {links[k].source, links[k].target} = {a, b}
        /\ \A j \in 1..(k - 1) : {links[j].source, links[j].target} # {a, b}

\* the position in `nodes` of the first node adjacent to nodes[i]
DiscovererOf(links, nodes, i) ==
    CHOOSE p \in 1..Len(nodes) :
        /\ Adjacent(links, nodes[p].id, nodes[i].id)
        /\ \A q \in 1..(p - 1) : ~Adjacent(links, nodes[q].id, nodes[i].id)

\* C16: the returned node list is in first-visited order: the center is first
\* and hop distance from the center never decreases along the list; when
\* every link endpoint has a node record, a node discovered from an earlier
\* list entry comes before a node discovered from a later one, and two nodes
\* discovered from the same node come in the order of their first links to
\* it in the full link list.
C16_FirstVisitedOrder ==
    \A r \in Reqs :
        Succeeded(r) =>
            LET ns == response[r].nodes
                c == args[r].center_node
            IN  /\ ns[1].id = c
                /\ \A i, j \in 1..Len(ns) :
                      i < j => Distance(InLinks, c, ns[i].id) <= Distance(InLinks, c, ns[j].id)
                /\ EndpointIds(InLinks) \subseteq IdsOf(InNodes) =>
                      \A i, j \in 2..Len(ns) :
                          i < j =>
                              LET pi == DiscovererOf(InLinks, ns, i)
                                  pj == DiscovererOf(InLinks, ns, j)
                              IN  /\ pi <= pj
                                  /\ pi = pj =>
                                        FirstLink(InLinks, ns[pi].id, ns[i].id)
                                            < FirstLink(InLinks, ns[pi].id, ns[j].id)

\* Two neighbours of the center are returned after it in the order of their
\* links, against the order of the three records in the node list.
C16_Witness ==
    \E r \in Reqs :
        /\ Succeeded(r)
        /\ Len(response[r].nodes) = 3
        /\ response[r].nodes[2].label > response[r].nodes[3].label
        /\ Distance(InLinks, args[r].center_node, response[r].nodes[3].id) = 1
        /\ InNodes[1].id # args[r].center_node

\* C17: an iteration that dequeues an entry whose label equals degree only
\* removes that entry: it visits no identifier, stores no node and appends no
\* link; and every returned node other than the center is adjacent to an
\* identifier at distance < degree (it was discovered from there).
C17_BoundNotExpanded ==
    [][\A r \in Reqs :
          /\ (/\ pc[r] = "bfs" /\ queue'[r] # queue[r]
              /\ Head(queue[r])[2] = ClampedDegree(r)) =>
                  /\ queue'[r] = Tail(queue[r])
                  /\ visited_nodes'[r] = visited_nodes[r]
                  /\ subgraph_nodes'[r] = subgraph_nodes[r]
                  /\ subgraph_links'[r] = subgraph_links[r]
          /\ (pc'[r] = "done" /\ response'[r].status = 200) =>
                  \A y \in IdsOf(response'[r].nodes) \ {args[r].center_node} :
                      \E x \in Within(InLinks, args[r].center_node, ClampedDegree(r) - 1) :
                          Adjacent(InLinks, x, y)]_vars

\* A returned node at distance degree has a neighbour with a node record
\* that is not returned, and the link between them is not returned.
C17_Witness ==
    \E r \in Reqs :
        /\ Succeeded(r)
        /\ \E y \in IdsOf(response[r].nodes), i \in 1..Len(InLinks) :
              /\ Distance(InLinks, args[r].center_node, y) = ClampedDegree(r)
              /\ y \in {InLinks[i].source, InLinks[i].target}
              /\ {InLinks[i].source, InLinks[i].target} \subseteq IdsOf(InNodes)
              /\ ~({InLinks[i].source, InLinks[i].target} \subseteq IdsOf(response[r].nodes))
              /\ ~InList(InLinks[i], response[r].links)

\* One request for center "A" over every link list of up to LiveMaxLinks
\* links of one amount (self-loops, parallel edges and two-cycles included)
\* and over the triangles on the three identifiers in every orientation, the
\* node list holding a record for every identifier or for the center alone.
LiveMaxLinks == 2
LoopLinks == {l \in LinkRecords(Ids) : l.amount = 1}
Triangles ==
    {t \in [1..3 -> LoopLinks] :
        /\ {t[1].source, t[1].target} = {"A", "B"}
        /\ {t[2].source, t[2].target} = {"B", "C"}
        /\ {t[3].source, t[3].target} = {"C", "A"}}
InitLive ==
    /\ \E ids \in {<<"A", "B", "C">>, <<"A">>},
          links \in SeqsUpTo(LoopLinks, LiveMaxLinks) \cup Triangles :
          cache_data = (Acct :> Document(Linkage(NodeList(ids), links)))
    /\ \E d \in 1..MaxDegree :
          OneRequest([acctno |-> Acct, center_node |-> "A", degree |-> IntParam(d)])
    /\ Locals0

\* Two requests for center "A" with degrees 1..ChainMaxDegree over the
\* prefixes of the chain A-B-C-D followed by at most one more link, the node
\* list holding records for every identifier or only for some of A and D.
ChainMaxDegree == 4
ChainIds == {"A", "B", "C", "D"}
Chain ==
    <<[source |-> "A", target |-> "B", amount |-> 1],
      [source |-> "B", target |-> "C", amount |-> 1],
      [source |-> "C", target |-> "D", amount |-> 1]>>
ChainLinks ==
    {SubSeq(Chain, 1, n) \o extra :
        n \in 0..3,
        extra \in {<<>>} \cup {<<l>> : l \in {k \in LinkRecords(ChainIds) : k.amount = 1}}}
InitChain ==
    /\ \E ids \in SeqsUpTo({"A", "D"}, PairMaxNodes) \cup {<<"A", "B", "C", "D">>},
          links \in ChainLinks :
          cache_data = (Acct :> Document(Linkage(NodeList(ids), links)))
    /\ \E d1, d2 \in 1..ChainMaxDegree :
          args = [r \in Reqs |-> [acctno |-> Acct, center_node |-> "A",
                                  degree |-> IntParam(IF r = 1 THEN d1 ELSE d2)]]
    /\ pc = [r \in Reqs |-> "recv"]
    /\ Locals0
SpecChain == InitChain /\ [][Next]_vars

\* Every request is served by a thread that keeps running until it returns.
SpecLive ==
    InitLive /\ [][Next]_vars /\ \A r \in Reqs : WF_vars(Start(r) \/ Step(r) \/ Respond(r))

\* the distinct identifiers of the graph a traversal can meet
GraphIds(r) == EndpointIds(InLinks) \cup {args[r].center_node}
\* queue entries left plus identifiers not yet visited
Remaining(r) == Len(queue[r]) + Cardinality(GraphIds(r) \ visited_nodes[r])

\* C18: the traversal terminates: the loop starts with as many remaining
\* units (queue entries plus unvisited identifiers) as the graph has distinct
\* identifiers, each iteration removes one queue entry and adds entries only
\* for identifiers that leave the unvisited set, so each iteration lowers
\* the remaining units by one and there are at most as many dequeues as
\* distinct identifiers; every request received eventually returns.
C18_Terminates ==
    /\ [][\A r \in Reqs :
            /\ pc[r] = "recv" /\ pc'[r] = "bfs" =>
                  Remaining(r)' = Cardinality(GraphIds(r))
            /\ pc[r] = "bfs" /\ queue'[r] # queue[r] =>
                  /\ visited_nodes[r] \subseteq visited_nodes'[r]
                  /\ visited_nodes'[r] \subseteq GraphIds(r)
                  /\ Remaining(r)' = Remaining(r) - 1]_vars
    /\ <>(\A r \in Reqs : pc[r] # "idle" => pc[r] = "done")

\* A traversal around a cycle through three identifiers has returned with
\* all three visited.
C18_Witness ==
    \E r \in Reqs :
        /\ Succeeded(r)
        /\ Cardinality(visited_nodes[r]) = 3
        /\ Len(InLinks) = 3
        /\ \A x \in visited_nodes[r] :
              Cardinality({y \in visited_nodes[r] : y # x /\ Adjacent(InLinks, x, y)}) = 2

Component(links, c) == Within(links, c, Cardinality(EndpointIds(links)))

\* C20: for two requests for one center on one graph, the nodes and links
\* returned for degree d are among those returned for degree d+1; and for
\* degrees greater than the number of nodes in the node list the result is
\* the same, the node records of the center's connected component with
\* every link joining two of them.
C20_MonotoneInDegree ==
    \A r, q \in Reqs :
        (/\ Succeeded(r) /\ Succeeded(q)
         /\ args[r].center_node = args[q].center_node) =>
            LET n == Len(InNodes)
                nodes_r == response[r].nodes
                links_r == response[r].links
            IN  /\ ClampedDegree(q) = ClampedDegree(r) + 1 =>
                      /\ Elems(nodes_r) \subseteq Elems(response[q].nodes)
                      /\ Elems(links_r) \subseteq Elems(response[q].links)
                /\ ClampedDegree(r) > n =>
                      /\ IdsOf(nodes_r)
                            = Component(InLinks, args[r].center_node) \cap IdsOf(InNodes)
                      /\ \A i \in 1..Len(InLinks) :
                            {InLinks[i].source, InLinks[i].target} \subseteq IdsOf(nodes_r)
                                => InList(InLinks[i], links_r)
                /\ ClampedDegree(r) > n /\ ClampedDegree(q) > n =>
                      /\ nodes_r = response[q].nodes
                      /\ Elems(links_r) = Elems(response[q].links)

NoBfsState(r) ==
    /\ adjacency[r] = EmptyDict /\ queue[r] = <<>> /\ visited_nodes[r] = {}
    /\ subgraph_nodes[r] = <<>> /\ subgraph_links[r] = <<>>
Failed(r, status, msg) ==
    pc[r] = "done" /\ response[r].status = status /\ response[r].error = msg

\* C21: the checks take precedence in the order missing acctno (400), empty
\* center_node (400), missing 'linkage' (404), empty nodes or links (400),
\* center not found (404): a finished request reports the first of these
\* that applies to it, so an empty graph gives 400 whether or not the center
\* is among the nodes; and no traversal state exists before the request has
\* passed all of them, nor after it failed one.
C21_ErrorPrecedence ==
    \A r \in Reqs :
        /\ pc[r] = "done" =>
              /\ args[r].acctno = "" => Failed(r, 400, "acctno parameter is required")
              /\ args[r].acctno # "" /\ args[r].center_node = "" =>
                    Failed(r, 400, "center_node parameter is required")
              /\ (/\ ParamsGiven(r) /\ FileExists(r)
                  /\ cache_data[args[r].acctno].keys # {} /\ ~HasLinkage(r)) =>
                    Failed(r, 404, "No linkage data available for this account")
              /\ EmptyGraph(r) => Failed(r, 400, "Invalid graph data structure")
              /\ CenterMissing(r) => Failed(r, 404, "Center node not found in graph")
              /\ response[r].status \in {400, 404} => NoBfsState(r)
        /\ pc[r] = "recv" => NoBfsState(r)
        /\ ~NoBfsState(r) => Traverses(r)

\* A request failed with 400 on a graph with no links whose node list is not
\* empty and holds no record of the requested center.
C21_Witness ==
    \E r \in Reqs :
        /\ Failed(r, 400, "Invalid graph data structure")
        /\ GraphLinks(r) = <<>> /\ GraphNodes(r) # <<>>
        /\ \A i \in 1..Len(GraphNodes(r)) :
              IsDict(GraphNodes(r)[i]) /\ GraphNodes(r)[i].id # args[r].center_node

\* C22: no identifier occurs twice in the returned node list, and every
\* returned node is the first record with its identifier in the full node
\* list.
C22_NoDuplicateIds ==
    \A r \in Reqs :
        Succeeded(r) =>
            /\ UniqueIds(response[r].nodes)
            /\ \A i \in 1..Len(response[r].nodes) :
                  \E k \in 1..Len(InNodes) :
                      /\ response[r].nodes[i] = InNodes[k]
                      /\ \A j \in 1..(k - 1) : InNodes[j].id # InNodes[k].id

\* A returned node other than the center has two records in the node list
\* and is joined to the visited nodes by two different links.
C22_Witness ==
    \E r \in Reqs :
        /\ Succeeded(r)
        /\ \E x \in IdsOf(response[r].nodes) \ {args[r].center_node} :
              /\ \E i, j \in 1..Len(InNodes) :
                    i # j /\ InNodes[i].id = x /\ InNodes[j].id = x
              /\ \E i, j \in 1..Len(InLinks) :
                    /\ i # j
                    /\ x \in {InLinks[i].source, InLinks[i].target}
                    /\ x \in {InLinks[j].source, InLinks[j].target}

====
